---- MODULE Spec2Model ----
(***************************************************************************)
(* A model of scraper.py, the Kavita Kosh crawler: the link filters, the   *)
(* "Title / Poet" work pattern, the text extraction cascade, and the       *)
(* sequential crawl main -> scrape_poet -> scrape_work with its network    *)
(* retrievals, politeness delays and per-poet JSON writes.                 *)
(*                                                                         *)
(* Text is a sequence of one-character strings, so that strip, split,      *)
(* replace, "in" and startswith are computed character by character.       *)
(* Devanagari is written in an ASCII transliteration (the parser reads     *)
(* ASCII only); the curly quotes U+201C and U+201D are the characters      *)
(* LDQUO and RDQUO.                                                        *)
(***************************************************************************)
EXTENDS Integers, Sequences, FiniteSets, TLC

VARIABLES
    web,          \* the remote site: URL -> parsed page (fixed during a run)
    limit,        \* get_poet_list's limit argument
    pc,           \* position of the single thread of control
    poets,        \* main: the list returned by get_poet_list
    i,            \* main: index of the poet being scraped
    works_meta,   \* scrape_poet: the list returned by get_poet_works
    j,            \* scrape_poet: index of the work being scraped
    poet_data,    \* scrape_poet: the record being assembled
    parts,        \* scrape_work: the part list returned by get_work_parts
    soup,         \* scrape_work: the parsed work page returned by get_work_parts
    k,            \* scrape_work: index of the part being fetched
    work_obj,     \* scrape_work: the work record being assembled
    psoup,        \* scrape_work: the parsed page of the last part fetched
    files,        \* the json.dump writes so far, in order: <<out_path key, data>>
    error,        \* the uncaught exception that ended the process, or "none"
    nfetch,       \* history: number of requests.get calls issued
    sinceSleep,   \* history: requests.get calls issued since the last sleep_polite
    nfail,        \* history: retrievals so far that did not succeed
    failedInPoet  \* history: a retrieval of the current scrape_poet call did not succeed

vars == <<web, limit, pc, poets, i, works_meta, j, poet_data, parts, soup, k,
          work_obj, psoup, files, error, nfetch, sinceSleep, nfail, failedInPoet>>

(***************************************************************************)
(* Bounds of the model.                                                    *)
(***************************************************************************)
\* retrievals of one run that may fail (exception or non-success status)
MaxFailures == 1
\* largest limit argument tried on get_poet_list in SpecList
MaxLimit == 3
\* longest link list of the generated pages of SpecList
MaxLinks == 3

(***************************************************************************)
(* Characters and Python's str operations.                                 *)
(***************************************************************************)
LDQUO == "{"
RDQUO == "}"
DQUOTE == "\""
APOS == "'"
Whitespace == {" ", "\t", "\n"}

\* In the operators below an argument is bound once, as x \in {s}, where it is
\* used several times.

\* str.startswith
StartsWith(s, p) ==
    \E x \in {s}, y \in {p} :
        /\ Len(y) <= Len(x)
        /\ SubSeq(x, 1, Len(y)) = y

\* the "in" operator on str: sub occurs in s (the empty string occurs in every string)
Contains(s, sub) ==
    \E x \in {s}, y \in {sub} :
        \E n \in 0..(Len(x) - Len(y)) : SubSeq(x, n + 1, n + Len(y)) = y

RECURSIVE lstrip(_)
lstrip(s) ==
    IF s # <<>> /\ Head(s) \in Whitespace THEN lstrip(Tail(s)) ELSE s

RECURSIVE rstrip(_)
rstrip(s) ==
    IF s # <<>> /\ s[Len(s)] \in Whitespace THEN rstrip(SubSeq(s, 1, Len(s) - 1)) ELSE s

\* str.strip()
strip(s) == CHOOSE v \in {rstrip(x) : x \in {lstrip(s)}} : TRUE

\* the non-overlapping occurrences of old in s replaced by new, left to right
RECURSIVE replace_all(_, _, _)
replace_all(s, old, new) ==
    IF s = <<>> THEN <<>>
    ELSE IF StartsWith(s, old)
         THEN new \o replace_all(SubSeq(s, Len(old) + 1, Len(s)), old, new)
         ELSE <<Head(s)>> \o replace_all(Tail(s), old, new)

\* str.replace(old, new)
replace(s, old, new) == CHOOSE v \in {replace_all(x, old, new) : x \in {s}} : TRUE

\* the maximal runs of non-whitespace characters of s, cur being the run in progress
RECURSIVE split_ws(_, _, _)
split_ws(s, cur, acc) ==
    IF s = <<>> THEN (IF cur = <<>> THEN acc ELSE Append(acc, cur))
    ELSE IF Head(s) \in Whitespace
         THEN split_ws(Tail(s), <<>>, IF cur = <<>> THEN acc ELSE Append(acc, cur))
         ELSE split_ws(Tail(s), Append(cur, Head(s)), acc)

\* str.split()
split(s) == CHOOSE v \in {split_ws(x, <<>>, <<>>) : x \in {s}} : TRUE

\* what follows the last "/" of s, all of s when there is none
RECURSIVE after_last_slash(_)
after_last_slash(s) ==
    IF Contains(s, <<"/">>) THEN after_last_slash(Tail(s)) ELSE s

\* text.split("/")[-1]
last_of_split(s) == CHOOSE v \in {after_last_slash(x) : x \in {s}} : TRUE

(***************************************************************************)
(* Configuration data.                                                     *)
(***************************************************************************)
BASE_URL == <<"h", "t", "t", "p", "s", ":", "/", "/", "k", "k", ".", "o", "r", "g">>
KK == <<"/", "k", "k", "/">>
INDEX_URL == BASE_URL \o KK \o <<"s", "U", "c", "h", "I">>
CATEGORY_NS == KK \o <<"s", "h", "r", "e", "N", "I", ":">>
TALK_NS == KK \o <<"v", "A", "r", "t", "A", ":">>

SKIP_LINK_WORDS ==
    { <<"p", "R", "S", "h", "T", "h", "a">>,
      <<"s", "r", "o", "t", " ", "d", "e", "k", "h", "e", "M">>,
      <<"i", "t", "i", "h", "A", "s">>,
      <<"c", "h", "a", "r", "c", "h", "A">>,
      <<"l", "~", "g", " ", "i", "n">>,
      <<"l", "~", "g", "i", "n">>,
      <<"k", "a", "v", "i", "t", "A", " ", "k", "o", "s", "h", " ", "k", "h", "o", "j">>,
      <<"I", "-", "p", "a", "t", "r", "i", "k", "A", "e", "M">>,
      <<"I", "-", "p", "u", "s", "t", "a", "k", "e", "M">>,
      <<"v", "i", "d", "h", "A", "e", "M">>,
      <<"v", "i", "S", "h", "a", "y">>,
      <<"f", "i", "l", "m", "I", " ", "g", "I", "t">>,
      <<"f", "i", "L", "m", "I", " ", "g", "I", "t">>,
      <<"a", "n", "u", "v", "A", "d">>,
      <<"s", "h", "r", "e", "N", "I">>,
      <<"m", "u", "k", "h", "a", "p", "R", "S", "h", "T", "h", "a">>,
      <<"v", "i", "d", "e", "s", "h", "I">>,
      <<"k", "a", "v", "i", "t", "A", " ", "k", "o", "s", "h">>,
      <<"m", "a", "h", "a", "t", "t", "v", "a", "p", "U", "r", "N", " ", "k", "a", "D", "i", "y", "A", "M">>,
      <<"n", "a", "e", " ", "j", "u", "D", "e", " ", "p", "a", "n", "n", "o", "M", " ", "k", "I", " ", "s", "U", "c", "h", "I">>,
      <<"a", "n", "y", "a", " ", "b", "h", "A", "S", "h", "A", "e", "M">>,
      <<"T", "A", "i", "p", "i", "M", "g", " ", "T", "U", "l", "s">>,
      <<"g", "a", "d", "y", "a", " ", "k", "o", "s", "h">>,
      <<"r", "a", "c", "h", "a", "n", "A", "k", "A", "r", "o", "M", " ", "k", "I", " ", "s", "U", "c", "h", "I">> }
LANG_WORDS ==
    { <<"h", "i", "n", "d", "I">>,
      <<"h", "i", "n", "d", "I", " ", "/", " ", "u", "r", "d", "U">>,
      <<"u", "r", "d", "U">>,
      <<"b", "h", "o", "j", "a", "p", "u", "r", "I">>,
      <<"m", "a", "i", "t", "h", "i", "l", "I">>,
      <<"r", "A", "j", "a", "s", "t", "h", "A", "n", "I">>,
      <<"a", "M", "g", "i", "k", "A">>,
      <<"a", "v", "a", "d", "h", "I">>,
      <<"n", "e", "p", "A", "l", "I">>,
      <<"h", "a", "r", "i", "y", "A", "N", "a", "v", "I">>,
      <<"b", "r", "a", "j", " ", "b", "h", "A", "S", "h", "A">>,
      <<"s", "a", "M", "s", "k", "R", "t", "a", "m">>,
      <<"C", "h", "a", "t", "t", "I", "s", "a", "g", "a", "D", "h", "I">>,
      <<"s", "i", "n", "d", "h", "I">>,
      <<"m", "a", "r", "A", "T", "h", "I">>,
      <<"g", "u", "j", "a", "r", "A", "t", "I">>,
      <<"p", "A", "l", "i">>,
      <<"g", "a", "D", "h", "a", "v", "A", "l", "I">> }

(***************************************************************************)
(* The link filters.  An anchor is [text |-> a.get_text() or "",           *)
(* href |-> a.get("href") or ""].                                          *)
(***************************************************************************)
is_navigation_text(text) ==
    IF text = <<>> THEN TRUE
    ELSE \E t \in {strip(text)} :
            IF t \in SKIP_LINK_WORDS \/ t \in LANG_WORDS THEN TRUE
            ELSE IF \E sym \in {<<".", ".", ".">>, <<"|">>} : Contains(t, sym) THEN TRUE
            ELSE FALSE

\* the body of get_poet_list's for loop, from anchor n on; poets is the list so far
RECURSIVE get_poet_list_loop(_, _, _, _)
get_poet_list_loop(anchors, n, acc, lim) ==
    IF n > Len(anchors) THEN acc
    ELSE LET name == strip(anchors[n].text)
             href == anchors[n].href
         IN  IF ~StartsWith(href, KK) THEN get_poet_list_loop(anchors, n + 1, acc, lim)
             ELSE IF is_navigation_text(name) THEN get_poet_list_loop(anchors, n + 1, acc, lim)
             ELSE IF StartsWith(href, CATEGORY_NS) \/ StartsWith(href, TALK_NS)
                  THEN get_poet_list_loop(anchors, n + 1, acc, lim)
             ELSE LET added == Append(acc, <<name, BASE_URL \o href>>)
                  IN  IF Len(added) >= lim THEN added
                      ELSE get_poet_list_loop(anchors, n + 1, added, lim)

normalize_poet_name(name) ==
    strip(replace(replace(replace(name, <<LDQUO>>, <<DQUOTE>>),
                          <<RDQUO>>, <<DQUOTE>>),
                  <<APOS, APOS>>, <<DQUOTE>>))

\* norm_poet.split()[0] raises IndexError when norm_poet has no token
RaisesIndexError(poet_name) == split(normalize_poet_name(poet_name)) = <<>>

main_name_token(poet_name) == Head(split(normalize_poet_name(poet_name)))

\* the body of get_poet_works' for loop, from anchor n on
RECURSIVE get_poet_works_loop(_, _, _, _)
get_poet_works_loop(anchors, n, acc, poet_name) ==
    IF n > Len(anchors) THEN acc
    ELSE LET text == strip(anchors[n].text)
             href == anchors[n].href
             last_part == strip(last_of_split(text))
             skip == get_poet_works_loop(anchors, n + 1, acc, poet_name)
         IN  IF ~StartsWith(href, KK) THEN skip
             ELSE IF is_navigation_text(text) THEN skip
             ELSE IF ~Contains(text, <<" ", "/", " ">>) THEN skip
             ELSE IF /\ ~Contains(last_part, main_name_token(poet_name))
                     /\ ~Contains(last_part, normalize_poet_name(poet_name))
                  THEN skip
             ELSE get_poet_works_loop(anchors, n + 1,
                                      Append(acc, <<text, BASE_URL \o href>>), poet_name)

\* get_work_parts' loop, matching on the full poet name only
RECURSIVE get_work_parts_full_name(_, _, _, _)
get_work_parts_full_name(anchors, n, acc, poet_name) ==
    IF n > Len(anchors) THEN acc
    ELSE LET text == strip(anchors[n].text)
             href == anchors[n].href
             last_part == strip(last_of_split(text))
             skip == get_work_parts_full_name(anchors, n + 1, acc, poet_name)
         IN  IF ~StartsWith(href, KK) THEN skip
             ELSE IF is_navigation_text(text) THEN skip
             ELSE IF ~Contains(text, <<" ", "/", " ">>) THEN skip
             ELSE IF ~Contains(last_part, normalize_poet_name(poet_name)) THEN skip
             ELSE get_work_parts_full_name(anchors, n + 1,
                                           Append(acc, <<text, BASE_URL \o href>>), poet_name)

\* the body of get_work_parts' for loop, from anchor n on
RECURSIVE get_work_parts_loop(_, _, _, _)
get_work_parts_loop(anchors, n, acc, poet_name) ==
    IF n > Len(anchors) THEN acc
    ELSE LET text == strip(anchors[n].text)
             href == anchors[n].href
             last_part == strip(last_of_split(text))
             skip == get_work_parts_loop(anchors, n + 1, acc, poet_name)
         IN  IF ~StartsWith(href, KK) THEN skip
             ELSE IF is_navigation_text(text) THEN skip
             ELSE IF ~Contains(text, <<" ", "/", " ">>) THEN skip
             ELSE IF /\ ~Contains(last_part, main_name_token(poet_name))
                     /\ ~Contains(last_part, normalize_poet_name(poet_name))
                  THEN skip
             ELSE get_work_parts_loop(anchors, n + 1,
                                      Append(acc, <<text, BASE_URL \o href>>), poet_name)

(***************************************************************************)
(* A parsed page (a BeautifulSoup) is seen through the queries the code    *)
(* makes of it:                                                            *)
(*   anchors   soup.select("#mw-content-text a"), in document order        *)
(*   poem, idpoem, ltr, content                                            *)
(*             soup.select_one(".poem"), ("#poem"), ("div.mw-content-ltr"),*)
(*             ("#mw-content-text"): <<>> when no element matches, else    *)
(*             <<t>> with t the element's get_text("\n", strip=True)       *)
(*   whole     soup.get_text("\n", strip=True)                             *)
(* A Tag is truthy even when it has no contents, so "if block:" tests      *)
(* only that an element was found.                                         *)
(***************************************************************************)
\* extract_poem_text, the content region being used only when its text is non-empty
extract_poem_text_nonempty(s) ==
    IF s.poem # <<>> /\ s.poem[1] # "" THEN s.poem[1]
    ELSE IF s.idpoem # <<>> /\ s.idpoem[1] # "" THEN s.idpoem[1]
    ELSE IF s.ltr # <<>> /\ s.ltr[1] # "" THEN s.ltr[1]
    ELSE IF s.content # <<>> /\ s.content[1] # "" THEN s.content[1]
    ELSE s.whole

extract_poem_text(s) ==
    IF s.poem # <<>> /\ s.poem[1] # "" THEN s.poem[1]
    ELSE IF s.idpoem # <<>> /\ s.idpoem[1] # "" THEN s.idpoem[1]
    ELSE IF s.ltr # <<>> /\ s.ltr[1] # "" THEN s.ltr[1]
    ELSE IF s.content # <<>> THEN s.content[1]
    ELSE s.whole

(***************************************************************************)
(* The remote site.  Link texts and hrefs of the modelled pages: POET      *)
(* stands for a two-word poet name, OTHER_POET for another poet.                *)
(***************************************************************************)
POET == <<"m", "v", " ", "v", "r">>
OTHER_POET == <<"o", "t">>
SEP == <<" ", "/", " ">>

Anchor(text, href) == [text |-> text, href |-> href]

HREF_POET == KK \o <<"m", "v">>
HREF_A == KK \o <<"A">>
HREF_B == KK \o <<"B">>
HREF_CAT == CATEGORY_NS \o <<"C">>
HREF_EXT == <<"h", "t", "t", "p", ":", "/", "/", "x">>

\* an author link, a navigation label, a category link and a talk link of the index
A_POET == Anchor(<<" ">> \o POET \o <<" ">>, HREF_POET)
A_OTHER == Anchor(OTHER_POET, HREF_B)
A_CHROME == Anchor(<<"c", "h", "a", "r", "c", "h", "A">>, HREF_A)
A_CATEGORY == Anchor(<<"k", "a", "v", "i">>, HREF_CAT)
A_TALK == Anchor(<<"k", "a", "v", "i">>, TALK_NS \o <<"k">>)
\* an author whose name is written with curly quotes
A_QUOTED == Anchor(<<LDQUO, "q", RDQUO>>, HREF_B)
\* "Title / Poet" links: by full name, by first token, into the category namespace,
\* off the site, of another poet, and with a pipe in the title
W_FULL == Anchor(<<"A">> \o SEP \o POET, HREF_A)
W_TOKEN == Anchor(<<"B">> \o SEP \o <<"m", "v">>, HREF_B)
W_CAT == Anchor(<<"C">> \o SEP \o POET, HREF_CAT)
W_EXT == Anchor(<<"D">> \o SEP \o POET, HREF_EXT)
W_OTHER == Anchor(<<"E">> \o SEP \o OTHER_POET, HREF_B)
W_PIPE == Anchor(<<"F", "|">> \o SEP \o POET, HREF_A)
\* no blank around the slash; the poet not last; two separators; straight quotes
W_NOSPACE == Anchor(<<"G", "/">> \o POET, HREF_A)
W_TAIL == Anchor(<<"J">> \o SEP \o POET \o SEP \o <<"z">>, HREF_A)
W_MULTI == Anchor(<<"H">> \o SEP \o <<"I">> \o SEP \o POET \o <<" ">>, HREF_B)
W_QUOTED == Anchor(<<"K">> \o SEP \o <<DQUOTE, "q", DQUOTE>>, HREF_A)

Page(anchors, poem, idpoem, ltr, content, whole) ==
    [anchors |-> anchors, poem |-> poem, idpoem |-> idpoem, ltr |-> ltr,
     content |-> content, whole |-> whole]

\* the index of poets, with one kept link and with two
PgIndex1 == Page(<<A_CHROME, A_CATEGORY, A_POET>>, <<>>, <<>>, <<>>,
                 <<"index text">>, "index page")
PgIndex2 == Page(<<A_POET, A_TALK, A_OTHER>>, <<>>, <<>>, <<>>,
                 <<"index text">>, "index page")
PgIndex3 == Page(<<A_QUOTED, A_CHROME, A_POET>>, <<>>, <<>>, <<>>,
                 <<"index text">>, "index page")
\* a page listing works (a poet's page, or the contents page of a multipart work)
PgList == Page(<<W_FULL, W_CAT, W_EXT, W_OTHER, W_PIPE, W_TOKEN>>, <<>>, <<>>,
               <<"list ltr">>, <<"list text">>, "list page")
\* a work in two parts, the first link being the page itself when served at HREF_A
PgSeries == Page(<<W_FULL, W_TOKEN>>, <<>>, <<>>, <<>>, <<"series text">>, "series page")
\* a page with links that do not match, a link listed twice and a quoted name
PgMisc == Page(<<W_NOSPACE, W_TAIL, W_MULTI, W_TOKEN, W_QUOTED, W_TOKEN>>, <<>>,
               <<"misc lines">>, <<>>, <<"misc text">>, "misc page")
\* a poem in a .poem container
PgPoem == Page(<<>>, <<"poem lines">>, <<>>, <<"">>, <<"poem text">>, "poem page")
\* a page whose content region is empty, with text outside of it
PgBlank == Page(<<>>, <<>>, <<>>, <<>>, <<"">>, "site menu")
\* the body of a response that is a server's error page
PgError == Page(<<>>, <<>>, <<>>, <<>>, <<>>, "503 Service Unavailable")
NoPage == Page(<<>>, <<>>, <<>>, <<>>, <<>>, "")

Site(index, poet, a, b, cat) ==
    (INDEX_URL :> index) @@ (BASE_URL \o HREF_POET :> poet) @@ (BASE_URL \o HREF_A :> a)
        @@ (BASE_URL \o HREF_B :> b) @@ (BASE_URL \o HREF_CAT :> cat)

\* the sites of Spec: every URL the pages link to is served
Sites ==
    { Site(index, poet, a, b, cat) :
        index \in {PgIndex1, PgIndex2, PgIndex3},
        poet \in {PgList, PgSeries, PgMisc, PgBlank},
        a \in {PgList, PgSeries, PgPoem, PgBlank},
        b \in {PgList, PgSeries, PgMisc, PgPoem},
        cat \in {PgPoem, PgBlank} }

(***************************************************************************)
(* get_soup: requests.get either raises (no connection) or returns a       *)
(* response; the response's status is not looked at, and its body is       *)
(* parsed whatever it is.                                                  *)
(***************************************************************************)
Responses(url) ==
    {[raised |-> FALSE, status |-> 200, page |-> web[url]]}
    \cup (IF nfail < MaxFailures
          THEN {[raised |-> TRUE, status |-> 0, page |-> NoPage],
                [raised |-> FALSE, status |-> 503, page |-> PgError]}
          ELSE {})

get_soup(url) == Responses(url)

Failed(r) == r.raised \/ r.status # 200

\* history of one requests.get call
Retrieved(r) ==
    /\ nfetch' = nfetch + 1
    /\ sinceSleep' = sinceSleep + 1
    /\ nfail' = nfail + (IF Failed(r) THEN 1 ELSE 0)

\* history of one sleep_polite call
sleep_polite == sinceSleep' = 0

\* an uncaught exception ends the process
Raise(exc) ==
    /\ pc' = "aborted"
    /\ error' = exc

poet_name == poets[i][1]
poet_url == poets[i][2]

(***************************************************************************)
(* The crawl, one action per step between two observable events (a         *)
(* retrieval, a delay, a file write).                                      *)
(***************************************************************************)
MAIN_LIMIT == 3140

NoWork == [title |-> <<>>, type |-> "none"]
NoPoet == [poet |-> <<>>, works |-> <<>>]

\* the state in which control is at `at` with the given locals, nothing written yet
Entered(w, lim, at, ps, idx, wm, jdx, pd, sp) ==
    /\ web = w
    /\ limit = lim
    /\ pc = at
    /\ poets = ps
    /\ i = idx
    /\ works_meta = wm
    /\ j = jdx
    /\ poet_data = pd
    /\ parts = <<>>
    /\ soup = sp
    /\ k = 0
    /\ work_obj = NoWork
    /\ psoup = NoPage
    /\ files = <<>>
    /\ error = "none"
    /\ nfetch = 0
    /\ sinceSleep = 0
    /\ nfail = 0
    /\ failedInPoet = FALSE

\* the process starts: main is entered
Start(w, lim) == Entered(w, lim, "main", <<>>, 0, <<>>, 0, NoPoet, NoPage)

Init == \E w \in Sites : Start(w, MAIN_LIMIT)

\* main, line 253: poets = get_poet_list(limit)
GetPoetList ==
    /\ pc = "main"
    /\ \E r \in get_soup(INDEX_URL) :
        /\ Retrieved(r)
        /\ IF r.raised
           THEN /\ Raise("ConnectionError")
                /\ UNCHANGED <<poets, i>>
           ELSE /\ poets' = get_poet_list_loop(r.page.anchors, 1, <<>>, limit)
                /\ i' = 1
                /\ pc' = "for_poet"
                /\ UNCHANGED error
    /\ UNCHANGED <<web, limit, works_meta, j, poet_data, parts, soup, k, work_obj,
                   psoup, files, failedInPoet>>

\* scrape_poet, lines 228-233: works_meta = get_poet_works(...), poet_data = {...}
GetPoetWorks ==
    /\ pc = "for_poet"
    /\ i <= Len(poets)
    /\ \E r \in get_soup(poet_url) :
        /\ Retrieved(r)
        /\ failedInPoet' = Failed(r)
        /\ IF r.raised
           THEN /\ Raise("ConnectionError")
                /\ UNCHANGED <<works_meta, j, poet_data>>
           ELSE IF RaisesIndexError(poet_name)
           THEN /\ Raise("IndexError")
                /\ UNCHANGED <<works_meta, j, poet_data>>
           ELSE /\ works_meta' = get_poet_works_loop(r.page.anchors, 1, <<>>, poet_name)
                /\ poet_data' = [poet |-> poet_name, works |-> <<>>]
                /\ j' = 1
                /\ pc' = "for_work"
                /\ UNCHANGED error
    /\ UNCHANGED <<web, limit, poets, i, parts, soup, k, work_obj, psoup, files>>

\* scrape_work, line 192: parts, soup = get_work_parts(poet_name, work_url)
GetWorkParts ==
    /\ pc = "for_work"
    /\ j <= Len(works_meta)
    /\ \E r \in get_soup(works_meta[j][2]) :
        /\ Retrieved(r)
        /\ failedInPoet' = (failedInPoet \/ Failed(r))
        /\ IF r.raised
           THEN /\ Raise("ConnectionError")
                /\ UNCHANGED <<parts, soup>>
           ELSE IF RaisesIndexError(poet_name)
           THEN /\ Raise("IndexError")
                /\ UNCHANGED <<parts, soup>>
           ELSE /\ parts' = get_work_parts_loop(r.page.anchors, 1, <<>>, poet_name)
                /\ soup' = r.page
                /\ pc' = "scrape_work"
                /\ UNCHANGED error
    /\ UNCHANGED <<web, limit, poets, i, works_meta, j, poet_data, k, work_obj,
                   psoup, files>>

\* the single branch, the work page being retrieved a second time
ScrapeSingleRefetch ==
    /\ pc = "scrape_work"
    /\ parts = <<>>
    /\ \E r \in get_soup(works_meta[j][2]) :
        /\ ~r.raised
        /\ Retrieved(r)
        /\ LET obj == [title |-> works_meta[j][1], type |-> "single",
                       content |-> extract_poem_text(r.page)]
           IN  /\ work_obj' = obj
               /\ poet_data' = [poet_data EXCEPT !.works = Append(@, obj)]
    /\ pc' = "sleep_work"
    /\ UNCHANGED <<web, limit, poets, i, works_meta, j, parts, soup, k, psoup, files,
                   error, failedInPoet>>

\* scrape_work, lines 210-220, and scrape_poet, line 237: the single branch
ScrapeSingle ==
    /\ pc = "scrape_work"
    /\ parts = <<>>
    /\ LET obj == [title |-> works_meta[j][1], type |-> "single",
                   content |-> extract_poem_text(soup)]
       IN  /\ work_obj' = obj
           /\ poet_data' = [poet_data EXCEPT !.works = Append(@, obj)]
    /\ pc' = "sleep_work"
    /\ UNCHANGED <<web, limit, poets, i, works_meta, j, parts, soup, k, psoup, files,
                   error, nfetch, sinceSleep, nfail, failedInPoet>>

\* scrape_work, lines 194-200: the multipart branch is entered
BeginParts ==
    /\ pc = "scrape_work"
    /\ parts # <<>>
    /\ work_obj' = [title |-> works_meta[j][1], type |-> "multipart", parts |-> <<>>]
    /\ k' = 1
    /\ pc' = "for_part"
    /\ UNCHANGED <<web, limit, poets, i, works_meta, j, poet_data, parts, soup, psoup,
                   files, error, nfetch, sinceSleep, nfail, failedInPoet>>

\* scrape_work, lines 201-208: one part is retrieved, extracted and appended
GetPart ==
    /\ pc = "for_part"
    /\ k <= Len(parts)
    /\ \E r \in get_soup(parts[k][2]) :
        /\ Retrieved(r)
        /\ failedInPoet' = (failedInPoet \/ Failed(r))
        /\ IF r.raised
           THEN /\ Raise("ConnectionError")
                /\ UNCHANGED <<psoup, work_obj>>
           ELSE /\ psoup' = r.page
                /\ work_obj' = [work_obj EXCEPT !.parts =
                       Append(@, [title |-> parts[k][1],
                                  content |-> extract_poem_text(r.page)])]
                /\ pc' = "sleep_part"
                /\ UNCHANGED error
    /\ UNCHANGED <<web, limit, poets, i, works_meta, j, poet_data, parts, soup, k, files>>

\* scrape_work, line 209
SleepPart ==
    /\ pc = "sleep_part"
    /\ sleep_polite
    /\ k' = k + 1
    /\ pc' = "for_part"
    /\ UNCHANGED <<web, limit, poets, i, works_meta, j, poet_data, parts, soup,
                   work_obj, psoup, files, error, nfetch, nfail, failedInPoet>>

\* scrape_work, line 220, and scrape_poet, line 237: the multipart work is returned
EndParts ==
    /\ pc = "for_part"
    /\ k > Len(parts)
    /\ poet_data' = [poet_data EXCEPT !.works = Append(@, work_obj)]
    /\ pc' = "sleep_work"
    /\ UNCHANGED <<web, limit, poets, i, works_meta, j, parts, soup, k, work_obj, psoup,
                   files, error, nfetch, sinceSleep, nfail, failedInPoet>>

\* scrape_poet, line 238
SleepWork ==
    /\ pc = "sleep_work"
    /\ sleep_polite
    /\ j' = j + 1
    /\ pc' = "for_work"
    /\ UNCHANGED <<web, limit, poets, i, works_meta, poet_data, parts, soup, k,
                   work_obj, psoup, files, error, nfetch, nfail, failedInPoet>>

\* the poet's record written when the last work is still to be scraped
SavePoetEarly ==
    /\ pc = "for_work"
    /\ j >= Len(works_meta)
    /\ files' = Append(files, <<poet_name, poet_data>>)
    /\ pc' = "sleep_main"
    /\ UNCHANGED <<web, limit, poets, i, works_meta, j, poet_data, parts, soup, k,
                   work_obj, psoup, error, nfetch, sinceSleep, nfail, failedInPoet>>

\* scrape_poet, lines 240-245: the poet's record is written to <poet_name>.json.
\* files is the log of these writes; the write itself is taken to succeed (the
\* file system, where equal names overwrite each other, is not modelled).
SavePoet ==
    /\ pc = "for_work"
    /\ j > Len(works_meta)
    /\ files' = Append(files, <<poet_name, poet_data>>)
    /\ pc' = "sleep_main"
    /\ UNCHANGED <<web, limit, poets, i, works_meta, j, poet_data, parts, soup, k,
                   work_obj, psoup, error, nfetch, sinceSleep, nfail, failedInPoet>>

\* main, line 257
SleepMain ==
    /\ pc = "sleep_main"
    /\ sleep_polite
    /\ i' = i + 1
    /\ pc' = "for_poet"
    /\ UNCHANGED <<web, limit, poets, works_meta, j, poet_data, parts, soup, k,
                   work_obj, psoup, files, error, nfetch, nfail, failedInPoet>>

\* main's loop left before the last poet
FinishEarly ==
    /\ pc = "for_poet"
    /\ i >= Len(poets)
    /\ pc' = "done"
    /\ UNCHANGED <<web, limit, poets, i, works_meta, j, poet_data, parts, soup, k,
                   work_obj, psoup, files, error, nfetch, sinceSleep, nfail, failedInPoet>>

\* main, line 259: every poet is done
Finish ==
    /\ pc = "for_poet"
    /\ i > Len(poets)
    /\ pc' = "done"
    /\ UNCHANGED <<web, limit, poets, i, works_meta, j, poet_data, parts, soup, k,
                   work_obj, psoup, files, error, nfetch, sinceSleep, nfail, failedInPoet>>

\* scrape_poet and what it calls
NextPoet ==
    \/ GetPoetWorks
    \/ GetWorkParts
    \/ ScrapeSingle
    \/ BeginParts
    \/ GetPart
    \/ SleepPart
    \/ EndParts
    \/ SleepWork
    \/ SavePoet

Next ==
    \/ GetPoetList
    \/ NextPoet
    \/ SleepMain
    \/ Finish

Spec == Init /\ [][Next]_vars

\* the process is scheduled until it exits
LiveSpec == Spec /\ WF_vars(Next)

(***************************************************************************)
(* The links of a page as the claims describe them, stated on the page     *)
(* and not on the loops that scan it.                                      *)
(***************************************************************************)
\* the link passes the navigation filter: a site link whose trimmed text is no label
IsCandidate(a) ==
    /\ StartsWith(a.href, KK)
    /\ ~is_navigation_text(strip(a.text))

\* the text reads "Title / Owner"
MatchesWork(text, owner) ==
    /\ Contains(text, SEP)
    /\ \/ Contains(strip(last_of_split(text)), main_name_token(owner))
       \/ Contains(strip(last_of_split(text)), normalize_poet_name(owner))

InNamespace(href) == StartsWith(href, CATEGORY_NS) \/ StartsWith(href, TALK_NS)

AuthorLinks(page) ==
    SelectSeq(page.anchors, LAMBDA a : IsCandidate(a) /\ ~InNamespace(a.href))

WorkLinks(page, owner) ==
    SelectSeq(page.anchors, LAMBDA a : IsCandidate(a) /\ MatchesWork(strip(a.text), owner))

UrlOf(a) == BASE_URL \o a.href

Min(a, b) == IF a <= b THEN a ELSE b

Blank(name) == \A n \in 1..Len(name) : name[n] \in Whitespace

InScrapeWork == pc \in {"scrape_work", "for_part", "sleep_part", "sleep_work"}

\* the containers of strategy 1, in the order they are tried
PoemContainers(s) == <<s.poem, s.idpoem, s.ltr>>

Populated(c) == c # <<>> /\ c[1] # ""

(***************************************************************************)
(* Specifications of single functions, entered with arguments drawn from   *)
(* bounded sets.                                                           *)
(***************************************************************************)
SeqsUpTo(S, n) == UNION {[1..m -> S] : m \in 0..n}

\* get_poet_list(limit) on generated index pages
ListPages ==
    {Page(a, <<>>, <<>>, <<>>, <<"index text">>, "index page") :
        a \in SeqsUpTo({A_POET, A_OTHER, A_CHROME, A_CATEGORY}, MaxLinks)}

InitList ==
    \E p \in ListPages, lim \in 0..MaxLimit : Start([u \in {INDEX_URL} |-> p], lim)

NextList == GetPoetList

SpecList == InitList /\ [][NextList]_vars

\* scrape_poet(poet_name, poet_url) and scrape_work(poet_name, title, url) with any
\* owner name, the empty and the all-whitespace ones included
OwnerNames == {<<>>, <<" ">>, <<" ", "\t">>, POET, <<LDQUO, "m", "v", RDQUO>>}

InitOwner ==
    \E w \in Sites, name \in OwnerNames :
        LET ps == <<<<name, BASE_URL \o HREF_POET>>>>
        IN  \/ Entered(w, MAIN_LIMIT, "for_poet", ps, 1, <<>>, 0, NoPoet, NoPage)
            \/ Entered(w, MAIN_LIMIT, "for_work", ps, 1,
                       <<<<W_FULL.text, BASE_URL \o HREF_A>>>>, 1,
                       [poet |-> name, works |-> <<>>], NoPage)

NextOwner == NextPoet

SpecOwner == InitOwner /\ [][NextOwner]_vars

\* extract_poem_text on the page scrape_work holds, for every combination of absent,
\* empty and populated containers (an empty page text leaves no container populated)
Opt(t) == {<<>>, <<"">>, <<t>>}

ExtractPages ==
    {s \in {Page(<<>>, p, q, l, c, w) :
                p \in Opt("poem lines"), q \in Opt("idpoem lines"),
                l \in Opt("ltr lines"), c \in Opt("content lines"),
                w \in {"", "page lines"}} :
        s.whole = "" =>
            \A c \in {s.poem, s.idpoem, s.ltr, s.content} : ~Populated(c)}

InitExtract ==
    \E s \in ExtractPages :
        Entered([u \in {BASE_URL \o HREF_A} |-> s], MAIN_LIMIT, "scrape_work",
                <<<<POET, BASE_URL \o HREF_POET>>>>, 1,
                <<<<W_FULL.text, BASE_URL \o HREF_A>>>>, 1,
                [poet |-> POET, works |-> <<>>], s)

NextExtract == ScrapeSingle

SpecExtract == InitExtract /\ [][NextExtract]_vars

RECURSIVE SumTo(_, _)
SumTo(f, n) == IF n = 0 THEN 0 ELSE f[n] + SumTo(f, n - 1)

\* the author entries main keeps: the first limit author links of the index
KeptAuthors ==
    LET A == AuthorLinks(web[INDEX_URL])
    IN  SubSeq(A, 1, Min(Len(A), limit))

\* retrievals of a work page: the page, and one per part link on it
WorkRetrievals(a, owner) == 1 + Len(WorkLinks(web[UrlOf(a)], owner))

\* retrievals of an author entry: the author's page, and those of each work link on it
AuthorRetrievals(a) ==
    LET owner == strip(a.text)
        W == WorkLinks(web[UrlOf(a)], owner)
    IN  1 + SumTo([m \in 1..Len(W) |-> WorkRetrievals(W[m], owner)], Len(W))

ExpectedRetrievals ==
    1 + SumTo([n \in 1..Len(KeptAuthors) |-> AuthorRetrievals(KeptAuthors[n])],
              Len(KeptAuthors))

(***************************************************************************)
(* The claims.                                                             *)
(***************************************************************************)

\* C1: when scrape_work returns for a work page with N >= 1 links that pass the
\* navigation filter and the "Title / Owner" pattern, the record is multipart with
\* exactly N parts, part n carrying the title of the n-th such link in document order
\* and the text extracted from the page retrieved for it; no multipart record that
\* was returned has an empty parts sequence.
C1_MultipartParts ==
    /\ pc = "sleep_part" =>
          LET L == WorkLinks(soup, poet_name)
          IN  /\ Len(work_obj.parts) = k
              /\ k <= Len(L)
              /\ work_obj.parts[k] = [title |-> strip(L[k].text),
                                      content |-> extract_poem_text(psoup)]
              /\ nfail = 0 => psoup = web[UrlOf(L[k])]
    /\ (pc = "sleep_work" /\ Len(WorkLinks(soup, poet_name)) >= 1) =>
          LET L == WorkLinks(soup, poet_name)
          IN  /\ work_obj.type = "multipart"
              /\ work_obj.title = works_meta[j][1]
              /\ Len(work_obj.parts) = Len(L)
              /\ \A n \in 1..Len(L) : work_obj.parts[n].title = strip(L[n].text)
              /\ nfail = 0 =>
                    \A n \in 1..Len(L) :
                        work_obj.parts[n].content = extract_poem_text(web[UrlOf(L[n])])
              /\ poet_data.works[j] = work_obj
    /\ \A n \in 1..Len(poet_data.works) :
          poet_data.works[n].type = "multipart" => poet_data.works[n].parts # <<>>
    /\ \A f \in 1..Len(files) : \A n \in 1..Len(files[f][2].works) :
          files[f][2].works[n].type = "multipart" => files[f][2].works[n].parts # <<>>

\* C1 witness: a work of at least two parts was returned, every retrieval having succeeded
C1_Witness ==
    /\ pc = "sleep_work"
    /\ nfail = 0
    /\ Len(WorkLinks(soup, poet_name)) >= 2
    /\ work_obj.type = "multipart"

\* C2: when the work page has no link matching the part pattern, scrape_work returns
\* a single record with the work entry's title and a content field equal to
\* extract_poem_text of the page already retrieved for the work, and issues no
\* further retrieval for that work.
C2_SingleFromSamePage ==
    /\ [](pc = "scrape_work" /\ nfail = 0 => soup = web[works_meta[j][2]])
    /\ [][(pc = "scrape_work" /\ Len(WorkLinks(soup, poet_name)) = 0) =>
            /\ pc' = "sleep_work"
            /\ nfetch' = nfetch
            /\ soup' = soup
            /\ work_obj' = [title |-> works_meta[j][1], type |-> "single",
                            content |-> extract_poem_text(soup)]
            /\ poet_data'.works = Append(poet_data.works, work_obj')]_vars

\* C2 witness: a single record was returned for a page without part links
C2_Witness ==
    /\ pc = "sleep_work"
    /\ nfail = 0
    /\ Len(WorkLinks(soup, poet_name)) = 0
    /\ work_obj.type = "single"
    /\ work_obj.content # ""

\* C3: with an empty or all-whitespace owner name, work-pattern matching fails
\* closed: nothing is collected as a work or a part, and nothing fails.
C3_FailsClosed ==
    (pc # "main" /\ Blank(poets[1][1])) =>
        /\ error = "none"
        /\ parts = <<>>
        /\ poet_data.works = <<>>

\* C4: no link whose href starts with the category or the talk namespace prefix is
\* collected as an author entry, a work entry or a part candidate.
C4_NamespaceLinksAreChrome ==
    \A e \in {poets[n] : n \in 1..Len(poets)}
             \cup {works_meta[n] : n \in 1..Len(works_meta)}
             \cup {parts[n] : n \in 1..Len(parts)} :
        /\ ~StartsWith(e[2], BASE_URL \o CATEGORY_NS)
        /\ ~StartsWith(e[2], BASE_URL \o TALK_NS)

\* C5: a politeness delay follows every network retrieval, so no two retrievals
\* are issued without a delay between them.
C5_DelayBetweenRetrievals == sinceSleep <= 1

\* C6: when a retrieval of the author's page, of a work page or of a part page did
\* not succeed, no record of that author is written and reported as completed.
C6_NoRecordAfterFailure == pc = "sleep_main" => ~failedInPoet

\* C7: get_poet_list returns at most limit entries, the first min(limit, number of
\* candidates) candidate links of the index page in document order, for every
\* limit >= 0.
C7_AtMostLimit ==
    (pc = "for_poet" /\ nfail = 0) =>
        LET A == AuthorLinks(web[INDEX_URL])
            n == Min(limit, Len(A))
        IN  /\ Len(poets) <= limit
            /\ poets = [m \in 1..n |-> <<strip(A[m].text), UrlOf(A[m])>>]

\* C8 as stated: the result is that of the first strategy yielding non-empty text,
\* an empty main content region falling through to the whole-page text.
C8_FirstNonEmptyWins ==
    pc = "sleep_work" /\ work_obj.type = "single" =>
        LET c == PoemContainers(soup) \o <<soup.content, <<soup.whole>>>>
        IN  \/ \E n \in 1..Len(c) :
                /\ Populated(c[n])
                /\ \A m \in 1..(n - 1) : ~Populated(c[m])
                /\ work_obj.content = c[n][1]
            \/ /\ \A n \in 1..Len(c) : ~Populated(c[n])
               /\ work_obj.content = ""

\* C8 amended: the first populated poem container wins; otherwise the main content
\* region's text is returned whenever the region is present, even when that text is
\* empty; the whole-page text is returned only when the region is absent.
C8_ContentRegionWinsWhenPresent ==
    pc = "sleep_work" /\ work_obj.type = "single" =>
        LET c == PoemContainers(soup)
        IN  \/ \E n \in 1..Len(c) :
                /\ Populated(c[n])
                /\ \A m \in 1..(n - 1) : ~Populated(c[m])
                /\ work_obj.content = c[n][1]
            \/ /\ \A n \in 1..Len(c) : ~Populated(c[n])
               /\ soup.content # <<>>
               /\ work_obj.content = soup.content[1]
            \/ /\ \A n \in 1..Len(c) : ~Populated(c[n])
               /\ soup.content = <<>>
               /\ work_obj.content = soup.whole

\* C8 witness: an empty main content region was returned over a non-empty page text
C8_Witness ==
    /\ pc = "sleep_work"
    /\ work_obj.type = "single"
    /\ soup.content = <<"">>
    /\ soup.whole # ""
    /\ work_obj.content = ""

C10_Terminates ==
    /\ <>(pc \in {"done", "aborted"})
    /\ [](pc = "done" /\ nfail = 0 => nfetch = ExpectedRetrievals)

\* C10 witness: a run over a site with a page that lists itself as its own part
\* ended after more than ten retrievals
C10_Witness ==
    /\ pc = "done"
    /\ nfail = 0
    /\ nfetch > 10
    /\ web[BASE_URL \o HREF_A] = PgSeries
    /\ UrlOf(PgSeries.anchors[1]) = BASE_URL \o HREF_A
====
